---- MODULE Spec2Model ----
(***************************************************************************)
(* State-machine model of src/index.js: the module-level Matrix client,    *)
(* runClient (login, client creation, crypto start-up, cross-signing       *)
(* bootstrap), sendEncryptedMessage, messageListenerEncrypted,             *)
(* getMessageEncrypted and the event handlers they register.               *)
(*                                                                         *)
(* Every `await` of the source is a point where the function is suspended; *)
(* the outcome of the awaited SDK / server call (success or failure) is    *)
(* chosen by the environment.  One action models one synchronous segment   *)
(* of a function: from its call, or from the settling of the promise it    *)
(* awaits, up to its next await, return or throw.                          *)
(***************************************************************************)
EXTENDS Integers, Sequences, FiniteSets, TLC

\* ----------------------------------------------------------------- bounds
MaxRuns == 2        \* calls of runClient
MaxClients == 2     \* client objects (created by runClient or handed to setClient)
MaxSends == 2       \* calls of sendEncryptedMessage
MaxListeners == 1   \* calls of messageListenerEncrypted
MaxGets == 1        \* calls of getMessageEncrypted
MaxEvents == 2      \* inbound events of the stream
MaxTimelineListeners == 2   \* calls of messageListener
MaxGetMessages == 2 \* calls of getMessage
MaxInvites == 1     \* calls of inviteUser

Rooms == {"roomA", "roomB"}
ClientObjs == 1..MaxClients
NoClient == 0       \* `client` is undefined
Events == 1..MaxEvents
MEGOLM == "m.megolm.v1.aes-sha2"

\* The room of inbound event e (events alternate between the rooms).
EvRoom(e) == IF e % 2 = 1 THEN "roomA" ELSE "roomB"

VARIABLES
    client,       \* the module-level `client`: NoClient or a client object
    objs,         \* the client objects: credentials, crypto and sync state
    cryptoStore,  \* the module-level cryptoStore: cross-signing identity, room algorithms
    server,       \* home server: access tokens issued, signing-key uploads
    joined,       \* rooms in which the user is a joined member
    rc,           \* the runClient call: position, outcome, call counters
    sends,        \* the sendEncryptedMessage calls
    calls,        \* per room: SDK requests issued by this module
    mle,          \* the messageListenerEncrypted calls
    gme,          \* the getMessageEncrypted calls
    handlers,     \* per client object: listeners of "Event.decrypted" / "Event.decryption_failure"
    stream,       \* inbound events: decryption stage, faults thrown into the emitter
    ml,           \* the messageListener calls
    gm,           \* the getMessage calls
    timeline,     \* "Room.timeline": listeners per client object, events emitted, faults
    inv,          \* the inviteUser calls
    cred          \* the credential sources given to runClient and the one it selects

vars == <<client, objs, cryptoStore, server, joined, rc, sends, calls, mle, gme,
          handlers, stream, ml, gm, timeline, inv, cred>>

timelineVars == <<ml, gm, timeline>>

runVars == <<client, objs, cryptoStore, server, rc>>
sendVars == <<sends>>
recvVars == <<mle, gme, handlers, stream>>

\* ------------------------------------------------------------ client objects
\* An object that does not exist yet.
Absent ==
    [exists |-> FALSE, accessToken |-> 0, store |-> -1, cryptoEnabled |-> FALSE,
     started |-> FALSE, memberListener |-> FALSE, blacklistUnverified |-> "default",
     errorOnUnknown |-> "default"]

\* The module-level memoryStore and cryptoStore (lines 10-11), as the stores of a client.
ModuleStores == 0

\* sdk.createClient({... accessToken, store: memoryStore, cryptoStore: cryptoStore ...})
\* (lines 48-58): a client, on the module's stores, neither initialised nor started.
CreateClient(token) ==
    [Absent EXCEPT !.exists = TRUE, !.accessToken = token, !.store = ModuleStores]

\* The first object identity not in use (MaxClients + 1 when all are).
FreeObj ==
    IF \E c \in ClientObjs : ~objs[c].exists
    THEN CHOOSE c \in ClientObjs :
            ~objs[c].exists /\ \A d \in ClientObjs : d < c => objs[d].exists
    ELSE MaxClients + 1

\* ------------------------------------------------------------------- Init
\* No call of inviteUser has been made.
InitInvites ==
    [i \in 1..MaxInvites |->
        [pc |-> "idle", room |-> "roomA", required |-> 0, mine |-> 0,
         known |-> FALSE, invited |-> FALSE, result |-> "none"]]

\* The properties runClient requires of its credentials (lines 34-35).
Props == {"homeserverUrl", "username", "password"}

\* A credential source that was not given (no file path; null for the object).
NotGiven == [given |-> FALSE, props |-> [p \in Props |-> "absent"]]

\* runClient has not looked at its arguments.
InitCred ==
    [pc |-> "idle", file |-> NotGiven, object |-> NotGiven, data |-> "none",
     error |-> "none"]

IdleRun ==
    [pc |-> "idle", run |-> 0, args |-> "ok", result |-> "none", caughtAt |-> "none",
     loginAttempts |-> 0, bootstraps |-> 0, reauths |-> 0, skipped |-> 0,
     reauthToken |-> 0, created |-> NoClient]

Init ==
    /\ client = NoClient
    /\ objs = [c \in ClientObjs |-> Absent]
    /\ cryptoStore = [crossSigningId |-> 0, alg |-> [r \in Rooms |-> "none"]]
    /\ server = [tokens |-> 0, uploads |-> {}, identities |-> 0]
    /\ joined \in SUBSET Rooms
    /\ rc = IdleRun
    /\ sends = [s \in 1..MaxSends |->
                  [pc |-> "idle", room |-> "roomA", isJoined |-> FALSE,
                   result |-> "none", failed |-> "none", encOk |-> FALSE,
                   sent |-> FALSE]]
    /\ calls = [r \in Rooms |-> [encRequests |-> 0, encDone |-> 0, sendEvents |-> 0]]
    /\ mle = [l \in 1..MaxListeners |->
                  [pc |-> "idle", room |-> "roomA", isJoined |-> FALSE, obj |-> NoClient,
                   calledOn |-> NoClient,
                   failed |-> "none", delivered |-> {}, thrown |-> 0,
                   offered |-> {}, firstOffered |-> 0]]
    /\ gme = [g \in 1..MaxGets |->
                  [pc |-> "idle", room |-> "roomA", isJoined |-> FALSE, obj |-> NoClient,
                   calledOn |-> NoClient,
                   failed |-> "none", promise |-> "pending", value |-> 0, thrown |-> 0,
                   offered |-> {}, firstOffered |-> 0]]
    /\ handlers = [c \in ClientObjs |-> [decrypted |-> <<>>, failure |-> <<>>]]
    /\ stream = [stage |-> [e \in Events |-> "new"], faults |-> 0]
    /\ ml = [k \in 1..MaxTimelineListeners |->
                 [pc |-> "idle", room |-> "roomA", obj |-> NoClient,
                  delivered |-> {}, expected |-> {}, thrown |-> 0]]
    /\ gm = [k \in 1..MaxGetMessages |->
                 [pc |-> "idle", obj |-> NoClient, promise |-> "pending", value |-> 0,
                  firstLive |-> 0]]
    /\ timeline = [handlers |-> [c \in ClientObjs |-> <<>>],
                   seen |-> [e \in Events |-> FALSE], faults |-> 0]
    /\ inv = InitInvites
    /\ cred = InitCred

\* ---------------------------------------------------------------- runClient
\* A mutation of the catch block: the failed start-up is undone (the client is
\* stopped, its listener removed and the module's client cleared).
RunClientCatchTeardown(where) ==
    /\ rc' = [rc EXCEPT !.pc = "done", !.result = "resolved", !.caughtAt = where]
    /\ client' = NoClient
    /\ objs' = IF client = NoClient THEN objs
               ELSE [objs EXCEPT ![client] =
                        [@ EXCEPT !.started = FALSE, !.memberListener = FALSE]]

\* The catch block of runClient (lines 98-100): the error is logged and runClient
\* returns normally; the client and everything registered on it are left as they are.
RunClientCatch(where) ==
    /\ rc' = [rc EXCEPT !.pc = "done", !.result = "resolved", !.caughtAt = where]
    /\ UNCHANGED <<client, objs>>

\* A throw outside the try block: the promise of runClient is rejected.
RunClientThrow(where) ==
    rc' = [rc EXCEPT !.pc = "done", !.result = "rejected", !.caughtAt = where]

\* runClient(filePath, credentials) up to `await olm.init` (lines 18-23).  args is
\*   "none"    - neither a file path nor a credentials object,
\*   "missing" - some required property is in neither source,
\*   "ok"      - every required property is present.
RunClientCall(args) ==
    /\ rc.pc \in {"idle", "done"}
    /\ rc.run < MaxRuns
    /\ LET fresh == [IdleRun EXCEPT !.run = rc.run + 1, !.args = args,
                                    !.bootstraps = rc.bootstraps, !.reauths = rc.reauths,
                                    !.skipped = rc.skipped]
       IN  IF args = "none"
           THEN rc' = [fresh EXCEPT !.pc = "done", !.result = "rejected",
                                    !.caughtAt = "arguments"]
           ELSE rc' = [fresh EXCEPT !.pc = "olmInit"]
    /\ UNCHANGED <<client, objs, cryptoStore, server, joined, sendVars, calls, recvVars,
                 timelineVars, inv, cred>>

\* olm.init settles; then the property check (lines 25-41) and the login call (line 47).
OlmInitDone(ok) ==
    /\ rc.pc = "olmInit"
    /\ IF ~ok THEN RunClientThrow("olm.init")
       ELSE IF rc.args = "missing" THEN RunClientThrow("missingProperties")
       ELSE rc' = [rc EXCEPT !.pc = "login", !.loginAttempts = @ + 1]
    /\ UNCHANGED <<client, objs, cryptoStore, server, joined, sendVars, calls, recvVars,
                 timelineVars, inv, cred>>

\* getCredentialsWithPassword settles (line 47); on success the client is created
\* with the returned access token and initCrypto is awaited (lines 48-59).
LoginDone(ok) ==
    /\ rc.pc = "login"
    /\ ok => FreeObj \in ClientObjs
    /\ IF ok
       THEN /\ server' = [server EXCEPT !.tokens = @ + 1]
            /\ objs' = [objs EXCEPT ![FreeObj] = CreateClient(server.tokens + 1)]
            /\ client' = FreeObj
            /\ rc' = [rc EXCEPT !.pc = "initCrypto", !.created = FreeObj]
       ELSE /\ RunClientCatch("login")
            /\ UNCHANGED server
    /\ UNCHANGED <<cryptoStore, joined, sendVars, calls, recvVars,
                 timelineVars, inv, cred>>

\* client.getCrossSigningId() (line 78): the identity held by the crypto store.
GetCrossSigningId == cryptoStore.crossSigningId

\* A mutation of the test of line 78: bootstrap whatever the store holds.
NeedsBootstrapAlways == TRUE

\* The test of line 78.
NeedsBootstrap == GetCrossSigningId = 0

\* Lines 78-97 from the test on: skip, or call bootstrapCrossSigning.
BootstrapStep ==
    IF NeedsBootstrap
    THEN rc' = [rc EXCEPT !.pc = "bootstrap", !.bootstraps = @ + 1]
    ELSE rc' = [rc EXCEPT !.pc = "done", !.result = "resolved", !.skipped = @ + 1]

\* A mutation of lines 70-71: unverified devices are blacklisted.
SetTrustFlagsBlocking(obj) ==
    [obj EXCEPT !.blacklistUnverified = "true", !.errorOnUnknown = "false"]

\* setGlobalBlacklistUnverifiedDevices(false) and setGlobalErrorOnUnknownDevices(false)
\* (lines 70-71).
SetTrustFlags(obj) ==
    [obj EXCEPT !.blacklistUnverified = "false", !.errorOnUnknown = "false"]

\* initCrypto settles (line 59); the membership listener is registered, both trust
\* flags are cleared and, crypto being enabled, startClient is awaited (lines 61-76).
InitCryptoDone(ok) ==
    /\ rc.pc = "initCrypto"
    /\ IF ok /\ client # NoClient
       THEN /\ objs' = [objs EXCEPT ![client] =
                          SetTrustFlags([@ EXCEPT !.cryptoEnabled = TRUE,
                                                  !.memberListener = TRUE])]
            /\ rc' = [rc EXCEPT !.pc = "startClient"]
            /\ UNCHANGED client
       ELSE RunClientCatch("initCrypto")
    /\ UNCHANGED <<cryptoStore, server, joined, sendVars, calls, recvVars,
                 timelineVars, inv, cred>>

\* startClient settles (line 75); then the cross-signing test (line 78).
StartClientDone(ok) ==
    /\ rc.pc = "startClient"
    /\ IF ok /\ client # NoClient
       THEN /\ objs' = [objs EXCEPT ![client] = [@ EXCEPT !.started = TRUE]]
            /\ BootstrapStep
            /\ UNCHANGED client
       ELSE RunClientCatch("startClient")
    /\ UNCHANGED <<cryptoStore, server, joined, sendVars, calls, recvVars,
                 timelineVars, inv, cred>>

\* bootstrapCrossSigning reaches the key upload and calls authUploadDeviceSigningKeys,
\* which logs in with the password (lines 80-88); or it fails before that.
BootstrapStarted(ok) ==
    /\ rc.pc = "bootstrap"
    /\ IF ok /\ client # NoClient
       THEN /\ rc' = [rc EXCEPT !.pc = "reauth", !.reauths = @ + 1]
            /\ UNCHANGED <<client, objs>>
       ELSE RunClientCatch("bootstrap")
    /\ UNCHANGED <<cryptoStore, server, joined, sendVars, calls, recvVars,
                 timelineVars, inv, cred>>

\* A mutation of lines 90-94: hand back the token the client was created with.
UploadAccessTokenCached(responseToken, obj) == obj.accessToken

\* The access_token authUploadDeviceSigningKeys returns (lines 90-94).
UploadAccessToken(responseToken, obj) == responseToken

\* client.login settles inside authUploadDeviceSigningKeys (lines 82-94); on success
\* the signing keys are uploaded under the credential the callback returns.
ReauthDone(ok) ==
    /\ rc.pc = "reauth"
    /\ IF ok /\ client # NoClient
       THEN LET fresh == server.tokens + 1
                used  == UploadAccessToken(fresh, objs[client])
            IN  /\ server' = [server EXCEPT
                        !.tokens = fresh,
                        !.uploads = @ \cup {[obj |-> client, token |-> used,
                                             reauthToken |-> fresh]}]
                /\ rc' = [rc EXCEPT !.pc = "upload", !.reauthToken = fresh]
                /\ UNCHANGED <<client, objs>>
       ELSE /\ RunClientCatch("reauth")
            /\ UNCHANGED server
    /\ UNCHANGED <<cryptoStore, joined, sendVars, calls, recvVars,
                 timelineVars, inv, cred>>

\* The upload (and with it bootstrapCrossSigning, line 79) settles; on success the
\* account has a cross-signing identity.
UploadDone(ok) ==
    /\ rc.pc = "upload"
    /\ IF ok
       THEN /\ server' = [server EXCEPT !.identities = @ + 1]
            /\ cryptoStore' = [cryptoStore EXCEPT !.crossSigningId = server.identities + 1]
            /\ rc' = [rc EXCEPT !.pc = "done", !.result = "resolved"]
            /\ UNCHANGED <<client, objs>>
       ELSE /\ RunClientCatch("upload")
            /\ UNCHANGED <<server, cryptoStore>>
    /\ UNCHANGED <<joined, sendVars, calls, recvVars,
                 timelineVars, inv, cred>>

\* The "RoomMember.membership" listener (lines 61-67): an invitation of this user is
\* answered by joining the room.
AutoJoin(r) ==
    /\ client # NoClient
    /\ objs[client].memberListener
    /\ r \notin joined
    /\ joined' = joined \cup {r}
    /\ UNCHANGED <<runVars, sendVars, calls, recvVars,
                 timelineVars, inv, cred>>

NextRun ==
    \/ \E args \in {"none", "missing", "ok"} : RunClientCall(args)
    \/ \E ok \in BOOLEAN : OlmInitDone(ok)
    \/ \E ok \in BOOLEAN : LoginDone(ok)
    \/ \E ok \in BOOLEAN : InitCryptoDone(ok)
    \/ \E ok \in BOOLEAN : StartClientDone(ok)
    \/ \E ok \in BOOLEAN : BootstrapStarted(ok)
    \/ \E ok \in BOOLEAN : ReauthDone(ok)
    \/ \E ok \in BOOLEAN : UploadDone(ok)
    \/ \E r \in Rooms : AutoJoin(r)

SpecRun == Init /\ [][NextRun]_vars

\* ------------------------------------------------------------------ setClient
\* setClient(newClient) (lines 345-347): newClient is undefined, a client that
\* exists already, or a client object made by the caller (with stores of its own).
SetClient(c) ==
    /\ c \in {NoClient} \cup {d \in ClientObjs : objs[d].exists \/ d = FreeObj}
    /\ c # client
    /\ client' = c
    /\ objs' = IF c # NoClient /\ ~objs[c].exists
               THEN [objs EXCEPT ![c] = [CreateClient(0) EXCEPT !.store = c]]
               ELSE objs
    /\ UNCHANGED <<cryptoStore, server, joined, rc, sendVars, calls, recvVars,
                 timelineVars, inv, cred>>

\* --------------------------------------------------------- isUserJoinedInRoom
\* isUserJoinedInRoom(roomId) (lines 195-205) for an initialised client: the room is
\* known and the user's membership in it is "join".  With no client it throws.
IsUserJoinedInRoom(r) == r \in joined

\* client.setRoomEncryption(roomId, {algorithm}) is issued for room r.
EncRequested(r) == [calls EXCEPT ![r].encRequests = @ + 1]

\* client.setRoomEncryption settled successfully: the store holds the room's algorithm.
EncStored(r) == [cryptoStore EXCEPT !.alg[r] = MEGOLM]

\* -------------------------------------------------------- sendEncryptedMessage
\* The catch block of sendEncryptedMessage (lines 121-123): the error is logged and
\* the function returns undefined.
SendCatch(s, why) ==
    sends' = [sends EXCEPT ![s].pc = "done", ![s].result = "undefined",
                           ![s].failed = why]

\* sendEncryptedMessage(roomId, message) up to `await isUserJoinedInRoom` (lines
\* 108-110); what the membership check finds is noted with the call.
SendCall(s, r) ==
    /\ sends[s].pc = "idle"
    /\ \A t \in 1..(s - 1) : sends[t].pc # "idle"
    /\ IF client = NoClient
       THEN SendCatch(s, "noClient") /\ sends'[s].room = r
       ELSE sends' = [sends EXCEPT ![s].pc = "checked", ![s].room = r,
                                   ![s].isJoined = IsUserJoinedInRoom(r)]
    /\ UNCHANGED <<runVars, joined, calls, recvVars,
                 timelineVars, inv, cred>>

\* The membership check has settled (its value is not used); setRoomEncryption is
\* called and awaited (lines 112-114).
SendChecked(s) ==
    /\ sends[s].pc = "checked"
    /\ IF client = NoClient
       THEN SendCatch(s, "noClient") /\ UNCHANGED calls
       ELSE /\ sends' = [sends EXCEPT ![s].pc = "encrypting"]
            /\ calls' = EncRequested(sends[s].room)
    /\ UNCHANGED <<runVars, joined, recvVars,
                 timelineVars, inv, cred>>

\* A mutation of lines 112-116: setRoomEncryption is not awaited, so the send goes
\* ahead whatever its outcome.
ProceedsToSendUnawaited(encOk) == TRUE

\* Whether control reaches sendEvent (line 116) once setRoomEncryption has settled:
\* the await of line 112 throws into the catch block when it was rejected.
ProceedsToSend(encOk) == encOk

\* setRoomEncryption has settled; on success sendEvent is called and awaited
\* (lines 116-119).
SendEncryptionDone(s, ok) ==
    /\ sends[s].pc = "encrypting"
    /\ LET r == sends[s].room
           done == IF ok THEN [calls EXCEPT ![r].encDone = @ + 1] ELSE calls
       IN  /\ cryptoStore' = IF ok THEN EncStored(r) ELSE cryptoStore
           /\ IF ProceedsToSend(ok) /\ client # NoClient
              THEN /\ sends' = [sends EXCEPT ![s].pc = "sending", ![s].encOk = ok,
                                             ![s].sent = TRUE]
                   /\ calls' = [done EXCEPT ![r].sendEvents = @ + 1]
              ELSE /\ SendCatch(s, IF ok THEN "noClient" ELSE "setRoomEncryption")
                   /\ sends'[s].encOk = ok
                   /\ calls' = done
    /\ UNCHANGED <<client, objs, server, rc, joined, recvVars,
                 timelineVars, inv, cred>>

\* sendEvent has settled (lines 116-123): the function logs and returns undefined
\* on success, and logs and returns undefined from the catch block on failure.
SendEventDone(s, ok) ==
    /\ sends[s].pc = "sending"
    /\ IF ok
       THEN sends' = [sends EXCEPT ![s].pc = "done", ![s].result = "undefined"]
       ELSE SendCatch(s, "sendEvent")
    /\ UNCHANGED <<runVars, joined, calls, recvVars,
                 timelineVars, inv, cred>>

NextSend ==
    \/ \E c \in {NoClient} \cup ClientObjs : SetClient(c)
    \/ \E s \in 1..MaxSends, r \in Rooms : SendCall(s, r)
    \/ \E s \in 1..MaxSends : SendChecked(s)
    \/ \E s \in 1..MaxSends, ok \in BOOLEAN : SendEncryptionDone(s, ok)
    \/ \E s \in 1..MaxSends, ok \in BOOLEAN : SendEventDone(s, ok)

SpecSend == Init /\ [][NextSend]_vars

\* ---------------------------------------------------- messageListenerEncrypted
\* Either .catch of messageListenerEncrypted (lines 249-254): the error is logged.
MleCatch(l, why) == mle' = [mle EXCEPT ![l].pc = "done", ![l].failed = why]

\* messageListenerEncrypted(onMessageCallback, roomId) up to the promise of
\* isUserJoinedInRoom (lines 233-235).
MleCall(l, r) ==
    /\ mle[l].pc = "idle"
    /\ \A k \in 1..(l - 1) : mle[k].pc # "idle"
    /\ IF client = NoClient
       THEN MleCatch(l, "noClient") /\ mle'[l].room = r
       ELSE mle' = [mle EXCEPT ![l].pc = "checked", ![l].room = r, ![l].calledOn = client,
                               ![l].isJoined = IsUserJoinedInRoom(r)]
    /\ UNCHANGED <<runVars, joined, sendVars, calls, gme, handlers, stream,
                 timelineVars, inv, cred>>

\* The .then callback of line 235 (it takes no argument: the membership is not
\* looked at): setRoomEncryption is called (lines 236-238).
MleChecked(l) ==
    /\ mle[l].pc = "checked"
    /\ IF client = NoClient
       THEN MleCatch(l, "noClient") /\ UNCHANGED calls
       ELSE /\ mle' = [mle EXCEPT ![l].pc = "encrypting"]
            /\ calls' = EncRequested(mle[l].room)
    /\ UNCHANGED <<runVars, joined, sendVars, gme, handlers, stream,
                 timelineVars, inv, cred>>

\* setRoomEncryption has settled; on success the "Event.decrypted" listener is
\* registered on the client (lines 238-248).
MleEncryptionDone(l, ok) ==
    /\ mle[l].pc = "encrypting"
    /\ LET r == mle[l].room
       IN  IF ok
           THEN /\ cryptoStore' = EncStored(r)
                /\ calls' = [calls EXCEPT ![r].encDone = @ + 1]
                /\ IF client = NoClient
                   THEN MleCatch(l, "noClient") /\ UNCHANGED handlers
                   ELSE /\ mle' = [mle EXCEPT ![l].pc = "listening", ![l].obj = client]
                        /\ handlers' = [handlers EXCEPT ![client].decrypted =
                                           Append(@, [kind |-> "mle", slot |-> l])]
           ELSE /\ MleCatch(l, "setRoomEncryption")
                /\ UNCHANGED <<cryptoStore, calls, handlers>>
    /\ UNCHANGED <<client, objs, server, rc, joined, sendVars, gme, stream,
                 timelineVars, inv, cred>>

\* --------------------------------------------------------- getMessageEncrypted
\* getMessageEncrypted(roomId) up to `await isUserJoinedInRoom` (lines 159-162).  A
\* throw inside the async executor rejects the executor's own promise, not the one
\* getMessageEncrypted returned: that one stays pending.
GmeCall(g, r) ==
    /\ gme[g].pc = "idle"
    /\ \A k \in 1..(g - 1) : gme[k].pc # "idle"
    /\ IF client = NoClient
       THEN gme' = [gme EXCEPT ![g].pc = "done", ![g].room = r, ![g].failed = "noClient"]
       ELSE gme' = [gme EXCEPT ![g].pc = "checked", ![g].room = r, ![g].calledOn = client,
                               ![g].isJoined = IsUserJoinedInRoom(r)]
    /\ UNCHANGED <<runVars, joined, sendVars, calls, mle, handlers, stream,
                 timelineVars, inv, cred>>

\* Lines 163-171: a non-member is rejected; otherwise setRoomEncryption is awaited.
GmeChecked(g) ==
    /\ gme[g].pc = "checked"
    /\ IF ~gme[g].isJoined
       THEN /\ gme' = [gme EXCEPT ![g].pc = "done", ![g].promise = "rejected",
                                  ![g].failed = "notJoined"]
            /\ UNCHANGED calls
       ELSE IF client = NoClient
       THEN /\ gme' = [gme EXCEPT ![g].pc = "done", ![g].failed = "noClient"]
            /\ UNCHANGED calls
       ELSE /\ gme' = [gme EXCEPT ![g].pc = "encrypting"]
            /\ calls' = EncRequested(gme[g].room)
    /\ UNCHANGED <<runVars, joined, sendVars, mle, handlers, stream,
                 timelineVars, inv, cred>>

\* setRoomEncryption has settled (lines 169-191): the "Event.decrypted" listener is
\* registered when the room is encrypted, the "Event.decryption_failure" listener
\* in either case.
GmeEncryptionDone(g, ok) ==
    /\ gme[g].pc = "encrypting"
    /\ LET r == gme[g].room
           h == [kind |-> "gme", slot |-> g]
       IN  IF ok
           THEN /\ cryptoStore' = EncStored(r)
                /\ calls' = [calls EXCEPT ![r].encDone = @ + 1]
                /\ IF client = NoClient
                   THEN /\ gme' = [gme EXCEPT ![g].pc = "done", ![g].failed = "noClient"]
                        /\ UNCHANGED handlers
                   ELSE /\ gme' = [gme EXCEPT ![g].pc = "listening", ![g].obj = client]
                        /\ handlers' = [handlers EXCEPT
                              ![client].decrypted =
                                  IF cryptoStore'.alg[r] # "none" THEN Append(@, h) ELSE @,
                              ![client].failure = Append(@, h)]
           ELSE /\ gme' = [gme EXCEPT ![g].pc = "done", ![g].failed = "setRoomEncryption"]
                /\ UNCHANGED <<cryptoStore, calls, handlers>>
    /\ UNCHANGED <<client, objs, server, rc, joined, sendVars, mle, stream,
                 timelineVars, inv, cred>>

\* ------------------------------------------------------------ inbound events
\* What event.getContent().body holds for a decrypted event: its plaintext, which
\* is named after the event.
EventBody(ev) == ev.id

\* A mutation of lines 239-248: the listener without the room test of line 240.
MleOnDecryptedAnyRoom(m, ev) ==
    IF ev.type = "m.room.encrypted" /\ ev.failure
    THEN [rec |-> [m EXCEPT !.thrown = @ + 1], threw |-> TRUE]
    ELSE IF ev.type = "m.room.message"
    THEN [rec |-> [m EXCEPT !.delivered = @ \cup {ev.id}], threw |-> FALSE]
    ELSE [rec |-> m, threw |-> FALSE]

\* The "Event.decrypted" listener of messageListenerEncrypted (lines 239-248) on
\* event ev, for the call whose record is m: the record afterwards, and whether the
\* listener threw.
MleOnDecrypted(m, ev) ==
    IF EvRoom(ev.id) = m.room
    THEN IF ev.type = "m.room.encrypted" /\ ev.failure
         THEN [rec |-> [m EXCEPT !.thrown = @ + 1], threw |-> TRUE]
         ELSE IF ev.type = "m.room.message"
         THEN [rec |-> [m EXCEPT !.delivered = @ \cup {EventBody(ev)}], threw |-> FALSE]
         ELSE [rec |-> m, threw |-> FALSE]
    ELSE [rec |-> m, threw |-> FALSE]

\* resolve(value) / reject(err) of a promise: the first settlement stands.
Resolve(g, body) ==
    IF g.promise = "pending" THEN [g EXCEPT !.promise = "resolved", !.value = body] ELSE g

Reject(g) == IF g.promise = "pending" THEN [g EXCEPT !.promise = "rejected"] ELSE g

\* The "Event.decrypted" listener of getMessageEncrypted (lines 174-181).
GmeOnDecrypted(g, ev) ==
    IF ev.type = "m.room.encrypted" /\ ev.failure
    THEN [rec |-> [g EXCEPT !.thrown = @ + 1], threw |-> TRUE]
    ELSE IF ev.type = "m.room.message"
    THEN [rec |-> Resolve(g, EventBody(ev)), threw |-> FALSE]
    ELSE [rec |-> g, threw |-> FALSE]

\* The "Event.decryption_failure" listener of getMessageEncrypted (lines 188-191).
GmeOnDecryptionFailure(g) == Reject(g)

\* emit(name, ev) of the client's event emitter: the listeners run synchronously in
\* the order of their registration; a listener that throws ends the emit, and the
\* exception goes to the code that emitted.  st = [mle, gme, faults].
RECURSIVE EmitTo(_, _, _)
EmitTo(hs, ev, st) ==
    IF hs = <<>> THEN st
    ELSE LET h == Head(hs)
             out == IF h.kind = "mle" THEN MleOnDecrypted(st.mle[h.slot], ev)
                                      ELSE GmeOnDecrypted(st.gme[h.slot], ev)
             nxt == IF h.kind = "mle"
                    THEN [st EXCEPT !.mle[h.slot] = out.rec]
                    ELSE [st EXCEPT !.gme[h.slot] = out.rec]
         IN  IF out.threw THEN [nxt EXCEPT !.faults = @ + 1]
             ELSE EmitTo(Tail(hs), ev, nxt)

\* The listeners of "Event.decrypted" on object c noted as having been offered the
\* plaintext of event e (the first one offered is kept apart for a promise).
Offered(recs, c, kind, e) ==
    [k \in DOMAIN recs |->
        IF \E i \in 1..Len(handlers[c].decrypted) :
              handlers[c].decrypted[i] = [kind |-> kind, slot |-> k]
        THEN [recs[k] EXCEPT !.offered = @ \cup {e},
                             !.firstOffered = IF @ = 0 THEN e ELSE @]
        ELSE recs[k]]

\* The SDK emits "Event.decrypted" for event e on client object c: a decryption
\* failure, the event still of type m.room.encrypted (of an event not tried before),
\* or the decrypted event, a message or of another type (also of an event that
\* failed before and whose key has arrived since).
EmitDecrypted(c, e, type, failure) ==
    /\ objs[c].exists
    /\ IF failure THEN type = "m.room.encrypted" /\ stream.stage[e] = "new"
                  ELSE type # "m.room.encrypted" /\ stream.stage[e] \in {"new", "failed"}
    /\ LET ev == [id |-> e, type |-> type, failure |-> failure]
           msg == type = "m.room.message"
           m0 == IF msg THEN Offered(mle, c, "mle", e) ELSE mle
           g0 == IF msg THEN Offered(gme, c, "gme", e) ELSE gme
           st == EmitTo(handlers[c].decrypted, ev,
                        [mle |-> m0, gme |-> g0, faults |-> stream.faults])
       IN  /\ mle' = st.mle
           /\ gme' = st.gme
           /\ stream' = [stage |-> [stream.stage EXCEPT ![e] =
                                       IF failure THEN "failed"
                                       ELSE IF @ = "failed" THEN "recovered"
                                       ELSE "decrypted"],
                         faults |-> st.faults]
    /\ UNCHANGED <<runVars, joined, sendVars, calls, handlers,
                 timelineVars, inv, cred>>

\* The SDK emits "Event.decryption_failure" for an event that could not be decrypted.
EmitDecryptionFailure(c, e) ==
    /\ objs[c].exists
    /\ stream.stage[e] = "failed"
    /\ gme' = [g \in DOMAIN gme |->
                 IF \E i \in 1..Len(handlers[c].failure) : handlers[c].failure[i].slot = g
                 THEN GmeOnDecryptionFailure(gme[g]) ELSE gme[g]]
    /\ gme' # gme
    /\ UNCHANGED <<runVars, joined, sendVars, calls, mle, handlers, stream,
                 timelineVars, inv, cred>>

NextRecv ==
    \/ \E c \in {NoClient} \cup ClientObjs : SetClient(c)
    \/ \E l \in 1..MaxListeners, r \in Rooms : MleCall(l, r)
    \/ \E l \in 1..MaxListeners : MleChecked(l)
    \/ \E l \in 1..MaxListeners, ok \in BOOLEAN : MleEncryptionDone(l, ok)
    \/ \E g \in 1..MaxGets, r \in Rooms : GmeCall(g, r)
    \/ \E g \in 1..MaxGets : GmeChecked(g)
    \/ \E g \in 1..MaxGets, ok \in BOOLEAN : GmeEncryptionDone(g, ok)
    \/ \E c \in ClientObjs, e \in Events,
          type \in {"m.room.encrypted", "m.room.message", "m.reaction"},
          failure \in BOOLEAN : EmitDecrypted(c, e, type, failure)
    \/ \E c \in ClientObjs, e \in Events : EmitDecryptionFailure(c, e)

SpecRecv == Init /\ [][NextRecv]_vars

\* ================================================================ the claims

\* C1: a decryption failure is never thrown out of the "Event.decrypted" handler:
\* whatever events have been delivered, no handler of messageListenerEncrypted or
\* getMessageEncrypted has thrown and no fault has reached the emitter.
C1_NoUncaughtFault ==
    /\ stream.faults = 0
    /\ \A l \in 1..MaxListeners : mle[l].thrown = 0
    /\ \A g \in 1..MaxGets : gme[g].thrown = 0

\* C2: a failed login is fatal to start-up and surfaced: when the login of runClient
\* has failed, the promise of runClient is rejected, the call has created no client
\* and it has made one login attempt.
C2_LoginFailureRejects ==
    (rc.pc = "done" /\ rc.caughtAt = "login") =>
        /\ rc.result = "rejected"
        /\ rc.created = NoClient
        /\ rc.loginAttempts = 1

\* C3: sendEncryptedMessage returns the event id on success and is rejected when
\* setRoomEncryption or sendEvent fails.
C3_SendFailureRejects ==
    \A s \in 1..MaxSends :
        sends[s].pc = "done" =>
            /\ sends[s].failed \in {"setRoomEncryption", "sendEvent"}
                  => sends[s].result = "rejected"
            /\ sends[s].failed = "none" => sends[s].result = "eventId"

\* C4: ensuring encryption is idempotent: once a room's algorithm is set, no step
\* issues another set-room-encryption request for it, and the algorithm stays.
C4_EnsureEncryptedIdempotent ==
    [][\A r \in Rooms :
          cryptoStore.alg[r] = MEGOLM =>
              /\ calls'[r].encRequests = calls[r].encRequests
              /\ cryptoStore'.alg[r] = MEGOLM]_vars

\* C5: sends to one room are serialized: no two calls for the same room are both
\* between their encryption check and the end of their send.
C5_SerializedPerRoom ==
    \A s, t \in 1..MaxSends :
        (s # t /\ sends[s].room = sends[t].room) =>
            ~(sends[s].pc \in {"encrypting", "sending"}
              /\ sends[t].pc \in {"encrypting", "sending"})

\* C6: in sendEncryptedMessage sendEvent is issued only after setRoomEncryption for
\* the room has completed successfully, and not at all when it failed.
C6_SendAfterEncryption ==
    /\ \A s \in 1..MaxSends :
          /\ sends[s].sent => sends[s].encOk
          /\ sends[s].failed = "setRoomEncryption" => ~sends[s].sent
    /\ \A r \in Rooms : calls[r].sendEvents > 0 => calls[r].encDone > 0

\* A call that sent its message and a call stopped by a failed setRoomEncryption.
C6_Witness ==
    \E s, t \in 1..MaxSends :
        /\ sends[s].sent /\ sends[s].pc = "done" /\ sends[s].failed = "none"
        /\ sends[t].pc = "done" /\ sends[t].failed = "setRoomEncryption"

\* C7: the bootstrap is idempotent: while bootstrapCrossSigning or its
\* re-authentication is under way the account had no cross-signing identity at the
\* test, and over all runs of runClient at most one identity is generated.
C7_BootstrapIdempotent ==
    /\ rc.pc \in {"bootstrap", "reauth", "upload"} => GetCrossSigningId = 0
    /\ server.identities <= 1
    /\ rc.bootstraps + rc.skipped <= rc.run
    /\ rc.reauths <= rc.bootstraps
    /\ rc.skipped > 0 => server.identities = 1

\* A second run of runClient that found the identity of the first and skipped.
C7_Witness ==
    /\ rc.run = 2 /\ rc.pc = "done" /\ rc.skipped = 1
    /\ rc.bootstraps = 1 /\ rc.reauths = 1 /\ server.identities = 1

\* C8: every upload of signing keys carries the token of the password login made
\* for it inside authUploadDeviceSigningKeys, issued after, and different from, the
\* token the client was created with.
C8_StepUpAuth ==
    \A u \in server.uploads :
        /\ u.token = u.reauthToken
        /\ u.token # objs[u.obj].accessToken
        /\ u.token > objs[u.obj].accessToken

\* The signing keys have been uploaded.
C8_Witness == server.uploads # {} /\ rc.pc = "upload"

\* C9: a failed bootstrap (or re-authentication, or upload) leaves the session up:
\* runClient has returned, the client it created is still the module's client, is
\* started and has its membership listener.
C9_BootstrapFailureKeepsSession ==
    (rc.pc = "done" /\ rc.caughtAt \in {"bootstrap", "reauth", "upload"}) =>
        /\ client # NoClient /\ client = rc.created
        /\ objs[client].started
        /\ objs[client].cryptoEnabled
        /\ objs[client].memberListener

\* The re-authentication inside the bootstrap has failed.
C9_Witness == rc.pc = "done" /\ rc.caughtAt = "reauth"

\* C10: an event that failed to decrypt and whose plaintext is emitted later reaches
\* the caller: the callback of every messageListenerEncrypted listener of its room
\* that was offered it, and the promise of a getMessageEncrypted call whose first
\* offered plaintext it is.
C10_RetryDelivers ==
    \A e \in Events :
        stream.stage[e] = "recovered" =>
            /\ \A l \in 1..MaxListeners :
                  (e \in mle[l].offered /\ mle[l].room = EvRoom(e))
                      => e \in mle[l].delivered
            /\ \A g \in 1..MaxGets :
                  gme[g].firstOffered = e
                      => (gme[g].promise = "resolved" /\ gme[g].value = e)

C12_ClientsIsolated ==
    /\ \A l \in 1..MaxListeners :
          mle[l].pc = "listening" => mle[l].obj = mle[l].calledOn
    /\ \A g \in 1..MaxGets :
          gme[g].pc = "listening" => gme[g].obj = gme[g].calledOn
    /\ \A c, d \in ClientObjs :
          (c # d /\ objs[c].exists /\ objs[d].exists) => objs[c].store # objs[d].store

\* ------------------------------------------------- messageListener, getMessage
\* messageListener(onMessageCallback, roomId) (lines 212-226): the "Room.timeline"
\* listener is registered at once; with no client the call throws.
MessageListenerCall(k, r) ==
    /\ ml[k].pc = "idle"
    /\ \A j \in 1..(k - 1) : ml[j].pc # "idle"
    /\ IF client = NoClient
       THEN /\ ml' = [ml EXCEPT ![k].pc = "threw", ![k].room = r]
            /\ UNCHANGED timeline
       ELSE /\ ml' = [ml EXCEPT ![k].pc = "listening", ![k].room = r, ![k].obj = client]
            /\ timeline' = [timeline EXCEPT !.handlers[client] =
                               Append(@, [kind |-> "ml", slot |-> k])]
    /\ UNCHANGED <<runVars, joined, sendVars, calls, recvVars, gm, inv, cred>>

\* getMessage() (lines 139-152): the executor registers the "Room.timeline" listener;
\* with no client it throws, which rejects the promise.
GetMessageCall(k) ==
    /\ gm[k].pc = "idle"
    /\ \A j \in 1..(k - 1) : gm[j].pc # "idle"
    /\ IF client = NoClient
       THEN /\ gm' = [gm EXCEPT ![k].pc = "done", ![k].promise = "rejected"]
            /\ UNCHANGED timeline
       ELSE /\ gm' = [gm EXCEPT ![k].pc = "listening", ![k].obj = client]
            /\ timeline' = [timeline EXCEPT !.handlers[client] =
                               Append(@, [kind |-> "gm", slot |-> k])]
    /\ UNCHANGED <<runVars, joined, sendVars, calls, recvVars, ml, inv, cred>>

\* The "Room.timeline" listener of messageListener (lines 213-225) on event ev, for
\* the call whose record is m: the record afterwards, and whether the listener threw.
MlOnTimeline(m, ev) ==
    IF ev.toStartOfTimeline THEN [rec |-> m, threw |-> FALSE]
    ELSE IF ev.type # "m.room.message" THEN [rec |-> m, threw |-> FALSE]
    ELSE IF m.room # EvRoom(ev.id)
    THEN [rec |-> [m EXCEPT !.thrown = @ + 1], threw |-> TRUE]
    ELSE [rec |-> [m EXCEPT !.delivered = @ \cup {ev.id}], threw |-> FALSE]

\* The "Room.timeline" listener of getMessage (lines 141-150).
GmOnTimeline(g, ev) ==
    IF ev.toStartOfTimeline THEN [rec |-> g, threw |-> FALSE]
    ELSE IF ev.type # "m.room.message" THEN [rec |-> g, threw |-> FALSE]
    ELSE [rec |-> Resolve(g, ev.id), threw |-> FALSE]

\* emit("Room.timeline", ev, room, toStartOfTimeline): the listeners run in the order
\* of their registration, up to the first that throws.  st = [ml, gm, faults].
RECURSIVE EmitTimelineTo(_, _, _)
EmitTimelineTo(hs, ev, st) ==
    IF hs = <<>> THEN st
    ELSE LET h == Head(hs)
             out == IF h.kind = "ml" THEN MlOnTimeline(st.ml[h.slot], ev)
                                     ELSE GmOnTimeline(st.gm[h.slot], ev)
             nxt == IF h.kind = "ml"
                    THEN [st EXCEPT !.ml[h.slot] = out.rec]
                    ELSE [st EXCEPT !.gm[h.slot] = out.rec]
         IN  IF out.threw THEN [nxt EXCEPT !.faults = @ + 1]
             ELSE EmitTimelineTo(Tail(hs), ev, nxt)

\* Whether a listener of the given kind and call is registered on object c.
TimelineRegistered(c, kind, k) ==
    \E i \in 1..Len(timeline.handlers[c]) :
        timeline.handlers[c][i] = [kind |-> kind, slot |-> k]

\* The SDK emits "Room.timeline" on client object c for event e, live or as
\* pagination replay, a message or of another type.  Noted beside the listeners'
\* own effects: for each registered messageListener the live messages of its room,
\* for each registered getMessage the first live message.
EmitTimeline(c, e, type, toStart) ==
    /\ objs[c].exists
    /\ ~timeline.seen[e]
    /\ LET ev == [id |-> e, type |-> type, toStartOfTimeline |-> toStart]
           live == ~toStart /\ type = "m.room.message"
           m0 == [k \in DOMAIN ml |->
                    IF live /\ TimelineRegistered(c, "ml", k) /\ ml[k].room = EvRoom(e)
                    THEN [ml[k] EXCEPT !.expected = @ \cup {e}] ELSE ml[k]]
           g0 == [k \in DOMAIN gm |->
                    IF live /\ TimelineRegistered(c, "gm", k) /\ gm[k].firstLive = 0
                    THEN [gm[k] EXCEPT !.firstLive = e] ELSE gm[k]]
           st == EmitTimelineTo(timeline.handlers[c], ev,
                                [ml |-> m0, gm |-> g0, faults |-> timeline.faults])
       IN  /\ ml' = st.ml
           /\ gm' = st.gm
           /\ timeline' = [timeline EXCEPT !.seen[e] = TRUE, !.faults = st.faults]
    /\ UNCHANGED <<runVars, joined, sendVars, calls, recvVars, inv, cred>>

NextTimeline ==
    \/ \E c \in {NoClient} \cup ClientObjs : SetClient(c)
    \/ \E k \in 1..MaxTimelineListeners, r \in Rooms : MessageListenerCall(k, r)
    \/ \E k \in 1..MaxGetMessages : GetMessageCall(k)
    \/ \E c \in ClientObjs, e \in Events, type \in {"m.room.message", "m.room.member"},
          toStart \in BOOLEAN : EmitTimeline(c, e, type, toStart)

SpecTimeline == Init /\ [][NextTimeline]_vars

\* C13: messageListener hands its callback exactly the live message events of its
\* room, and filters every other event without a fault: no listener has thrown, no
\* fault has reached the emitter, and each callback got the live messages of its room
\* that were emitted while it was registered.
C13_DispatchExactly ==
    /\ timeline.faults = 0
    /\ \A k \in 1..MaxTimelineListeners :
          /\ ml[k].thrown = 0
          /\ ml[k].delivered = ml[k].expected

\* C18: a getMessage promise settles once, with the first live message emitted
\* after the call, and once it has settled its listener is no longer registered.
C18_SettlesOnceAndUnregisters ==
    \A k \in 1..MaxGetMessages :
        /\ gm[k].firstLive # 0 => (gm[k].promise = "resolved" /\ gm[k].value = gm[k].firstLive)
        /\ (gm[k].promise # "pending" /\ gm[k].obj # NoClient)
              => ~TimelineRegistered(gm[k].obj, "gm", k)

\* ------------------------------------------------------------------ inviteUser
\* The power levels of a room (line 273: 0 a user, 50 a moderator, 100 the owner).
Levels == {0, 50, 100}

\* inviteUser or getMyPowerLevel throws: the promise of inviteUser is rejected.
InviteThrow(i, what) == inv' = [inv EXCEPT ![i].pc = "done", ![i].result = what]

\* inviteUser(roomId, userId) up to `await client.getStateEvent` (lines 262-263).
InviteCall(i, r) ==
    /\ inv[i].pc = "idle"
    /\ \A j \in 1..(i - 1) : inv[j].pc # "idle"
    /\ IF client = NoClient
       THEN InviteThrow(i, "error") /\ inv'[i].room = r
       ELSE inv' = [inv EXCEPT ![i].pc = "getState", ![i].room = r]
    /\ UNCHANGED <<runVars, joined, sendVars, calls, recvVars, timelineVars, cred>>

\* getStateEvent settles with the room's power levels, whose invite level is
\* `level`; getMyPowerLevel is called and awaits roomInitialSync (lines 263-264, 280).
InviteStateDone(i, ok, level) ==
    /\ inv[i].pc = "getState"
    /\ IF ok /\ client # NoClient
       THEN inv' = [inv EXCEPT ![i].pc = "sync", ![i].required = level]
       ELSE InviteThrow(i, "error")
    /\ UNCHANGED <<runVars, joined, sendVars, calls, recvVars, timelineVars, cred>>

\* A mutation of line 265: a user at exactly the invite level is refused.
PermissionDeniedAtLevel(required, mine) == required >= mine

\* The test of line 265.
PermissionDenied(required, mine) == required > mine

\* roomInitialSync settles and getMyPowerLevel returns the member's power level
\* `level` (lines 280-286; a failure, an unknown room or a missing member is
\* rethrown); then the permission test and the invite (lines 265-268).
InviteLevelDone(i, ok, level) ==
    /\ inv[i].pc = "sync"
    /\ IF ok /\ client # NoClient
       THEN IF PermissionDenied(inv[i].required, level)
            THEN inv' = [inv EXCEPT ![i].pc = "done", ![i].mine = level,
                                    ![i].known = TRUE, ![i].result = "permissionError"]
            ELSE inv' = [inv EXCEPT ![i].pc = "inviting", ![i].mine = level,
                                    ![i].known = TRUE, ![i].invited = TRUE]
       ELSE InviteThrow(i, "error")
    /\ UNCHANGED <<runVars, joined, sendVars, calls, recvVars, timelineVars, cred>>

\* client.invite settles (line 268).
InviteDone(i, ok) ==
    /\ inv[i].pc = "inviting"
    /\ inv' = [inv EXCEPT ![i].pc = "done",
                          ![i].result = IF ok THEN "resolved" ELSE "error"]
    /\ UNCHANGED <<runVars, joined, sendVars, calls, recvVars, timelineVars, cred>>

NextInvite ==
    \/ \E c \in {NoClient} \cup ClientObjs : SetClient(c)
    \/ \E i \in 1..MaxInvites, r \in Rooms : InviteCall(i, r)
    \/ \E i \in 1..MaxInvites, ok \in BOOLEAN, level \in Levels : InviteStateDone(i, ok, level)
    \/ \E i \in 1..MaxInvites, ok \in BOOLEAN, level \in Levels : InviteLevelDone(i, ok, level)
    \/ \E i \in 1..MaxInvites, ok \in BOOLEAN : InviteDone(i, ok)

SpecInvite == Init /\ [][NextInvite]_vars

\* C14: inviteUser invites exactly when permitted: client.invite has been called if
\* and only if both levels were obtained and the client's own level is at least
\* the room's invite level; otherwise, the levels known, it threw the permission
\* error and sent no invite.
C14_InviteIffPermitted ==
    \A i \in 1..MaxInvites :
        /\ inv[i].invited <=> (inv[i].known /\ inv[i].mine >= inv[i].required)
        /\ (inv[i].known /\ inv[i].mine < inv[i].required)
              => (inv[i].result = "permissionError" /\ inv[i].pc = "done")
        /\ inv[i].result = "permissionError" => ~inv[i].invited

\* A moderator's invite in a room whose invite level is 50 has been sent.
C14_Witness ==
    \E i \in 1..MaxInvites :
        /\ inv[i].invited /\ inv[i].mine = 50 /\ inv[i].required = 50
        /\ inv[i].pc = "done" /\ inv[i].result = "resolved"

\* ------------------------------------------------- runClient: its credentials
\* The credential sources runClient may be given: none, or an object (the parsed
\* file, the credentials argument) in which each property is absent, present but
\* empty, or set.
Sources ==
    {NotGiven} \cup
    {[given |-> TRUE, props |-> f] : f \in [Props -> {"absent", "empty", "set"}]}

\* src?.[prop] is truthy.
Truthy(src, p) == src.given /\ src.props[p] = "set"

\* src.hasOwnProperty(prop).
HasOwnProperty(src, p) == src.props[p] # "absent"

\* missingProperties (lines 34-37), as a set.
MissingProperties(file, object) ==
    {p \in Props : ~Truthy(file, p) /\ ~Truthy(object, p)}

\* The source chosen as `data` (line 44).
SelectData(file, object, missing) ==
    IF object.given /\ (~file.given \/ \E p \in missing : HasOwnProperty(object, p))
    THEN "object" ELSE "file"

\* runClient on its two sources, from the argument check to the choice of `data`
\* for the login (lines 19-44).
RunClientCredentials(file, object) ==
    /\ cred.pc = "idle"
    /\ LET missing == MissingProperties(file, object)
           given == [cred EXCEPT !.file = file, !.object = object]
       IN  IF ~file.given /\ ~object.given
           THEN cred' = [given EXCEPT !.pc = "thrown", !.error = "arguments"]
           ELSE IF missing # {}
           THEN cred' = [given EXCEPT !.pc = "thrown", !.error = "missingProperties"]
           ELSE cred' = [given EXCEPT !.pc = "login",
                                      !.data = SelectData(file, object, missing)]
    /\ UNCHANGED <<runVars, joined, sendVars, calls, recvVars, timelineVars, inv>>

NextCred == \E file \in Sources, object \in Sources : RunClientCredentials(file, object)

SpecCred == Init /\ [][NextCred]_vars

\* The source runClient logs in with.
CredData == IF cred.data = "object" THEN cred.object ELSE cred.file

\* C15: runClient logs in with a source that has all three required properties, and
\* when a property is in neither of the sources given it fails with the
\* missing-properties error instead of logging in.
C15_SelectedSourceComplete ==
    /\ cred.pc = "login" => \A p \in Props : Truthy(CredData, p)
    /\ (cred.pc # "idle" /\ (cred.file.given \/ cred.object.given)
          /\ MissingProperties(cred.file, cred.object) # {})
          => (cred.pc = "thrown" /\ cred.error = "missingProperties")

\* messageListenerEncrypted alone, with the events of the stream, in a session
\* whose client is set once and kept.
NextListen ==
    \/ client = NoClient /\ \E c \in ClientObjs : SetClient(c)
    \/ \E l \in 1..MaxListeners, r \in Rooms : MleCall(l, r)
    \/ \E l \in 1..MaxListeners : MleChecked(l)
    \/ \E l \in 1..MaxListeners, ok \in BOOLEAN : MleEncryptionDone(l, ok)
    \/ \E c \in ClientObjs, e \in Events,
          type \in {"m.room.encrypted", "m.room.message", "m.reaction"},
          failure \in BOOLEAN : EmitDecrypted(c, e, type, failure)

SpecListen == Init /\ [][NextListen]_vars

\* --------------------------------------------------------------- the program
\* Every exported function, called in any order.
Next == NextRun \/ NextSend \/ NextRecv \/ NextTimeline \/ NextInvite \/ NextCred

Spec == Init /\ [][Next]_vars

\* Whether the "Event.decrypted" listener of call l is registered on object c.
MleRegistered(c, l) ==
    \E i \in 1..Len(handlers[c].decrypted) :
        handlers[c].decrypted[i] = [kind |-> "mle", slot |-> l]

\* C16: messageListenerEncrypted listens only for its room: its callback gets only
\* bodies of decrypted m.room.message events of the given room, and its listener is
\* registered only once setRoomEncryption for the room has succeeded (never when it
\* failed).
C16_ListensOnlyForItsRoom ==
    \A l \in 1..MaxListeners :
        /\ \A b \in mle[l].delivered :
              b \in mle[l].offered /\ EvRoom(b) = mle[l].room
        /\ \A c \in ClientObjs :
              MleRegistered(c, l) =>
                  /\ mle[l].pc = "listening" /\ mle[l].failed = "none"
                  /\ calls[mle[l].room].encDone > 0
                  /\ cryptoStore.alg[mle[l].room] = MEGOLM

\* A listener that got a message of its room and was run for a message of the
\* other room without handing it on.
C16_Witness ==
    \E l \in 1..MaxListeners :
        /\ mle[l].delivered # {}
        /\ \E e \in mle[l].offered : EvRoom(e) # mle[l].room

\* C17: sending and listening require room membership: a sendEncryptedMessage call
\* that has issued setRoomEncryption or sendEvent, and a messageListenerEncrypted
\* call whose listener is registered, found the user joined in its room; and while no
\* client has ever been initialised no client call has been issued.
C17_RequiresMembership ==
    /\ \A s \in 1..MaxSends :
          (sends[s].pc \in {"encrypting", "sending"} \/ sends[s].sent
             \/ sends[s].failed \in {"setRoomEncryption", "sendEvent"})
              => sends[s].isJoined
    /\ \A l \in 1..MaxListeners, c \in ClientObjs :
          MleRegistered(c, l) => mle[l].isJoined
    /\ (\A c \in ClientObjs : ~objs[c].exists) =>
          \A r \in Rooms : calls[r] = [encRequests |-> 0, encDone |-> 0,
                                       sendEvents |-> 0]

====
